---- MODULE Spec2Model ----
(***************************************************************************)
(* Model of the PPO / IPPO core of rl_tools:                               *)
(*   src/rl/algos/ippo.py           PPO.explore, PPO.update,               *)
(*                                  process_experience_factory             *)
(*   src/rl_tools/algos/factory.py  explore_general_factory,               *)
(*                                  process_experience_general_factory     *)
(*   src/rl/loss.py                 loss_policy_ppo_discrete,              *)
(*                                  loss_value_clip                        *)
(*                                                                         *)
(* Three specifications share the module: SpecUpdate (the update loop),    *)
(* SpecBatch (the batching lifts and the random-key splitting) and         *)
(* SpecLoss (the two loss functions).                                      *)
(***************************************************************************)
EXTENDS Integers, Sequences, FiniteSets, TLC

VARIABLES
    \* ---- PPO.update (src/rl/algos/ippo.py:143-159) ----
    pc,             \* phase of the update call: Idle, Sampling, Processing, Epoch
    outcome,        \* how the last update call ended: none, returned, raised
    self_state,     \* self.state, the agent's stored TrainState
    self_key,       \* the Seeded root key behind self.nextkey()
    num_epochs,     \* self.config.num_epochs
    state,          \* fn's local `state`
    key,            \* fn's local `key`
    sample,         \* the value buffer.sample() returned
    experiences,    \* the value process_experience_fn returned
    epoch,          \* number of completed iterations of the epoch loop
    loss,           \* fn's local `loss` (running sum)
    info,           \* fn's local `info`
    ret,            \* the value update returned to its caller
    h_update,       \* history of the current update call (calls made, keys, losses)
    \* ---- the batching lifts ----
    call,           \* the last call of explore / process_experience: inputs and results
    \* ---- src/rl/loss.py ----
    loss_call       \* the last call of a loss function: inputs and result

uvars == <<pc, outcome, self_state, self_key, num_epochs, state, key, sample,
           experiences, epoch, loss, info, ret, h_update>>

vars == <<uvars, call, loss_call>>

----------------------------------------------------------------------------
(* Bounds of the model *)

MaxEpochs == 3
MaxUpdates == 2
MaxLoss == 2

----------------------------------------------------------------------------
(* Random keys.  A key is the path of splits that derived it from the seed: *)
(* jax.random.split(key, n)[i] is key extended by <<n, i>>.  Distinct paths *)
(* stand for distinct key values.                                           *)

RootKey == <<>>

split(k, n) == [i \in 1..n |-> Append(k, <<n, i - 1>>)]

\* Seeded.nextkey(): self.key, sub = split(self.key); return sub
nextkey_root(k) == split(k, 2)[1]
nextkey_sub(k) == split(k, 2)[2]

----------------------------------------------------------------------------
(* PPO.update *)

NoInfo == [diag |-> <<>>]
NoCall == [op |-> "none"]
NoLossCall == [fn |-> "none"]
NoRet == [diag |-> <<>>, total_loss |-> [num |-> 0, den |-> 1]]
NoHistory == [n_sample |-> 0, n_process |-> 0, n_step |-> 0, keys |-> <<>>,
              losses |-> <<>>, infos |-> <<>>, states |-> <<>>,
              state_at_call |-> [step |-> 0, by |-> <<>>], n_updates |-> 0]

\* update_step_fn(state, _k, experiences): one optimizer step, giving a new
\* TrainState, and the diagnostics of that step
update_step_state(s, k) == [step |-> s.step + 1, by |-> k]
update_step_info(s, k, e) == [diag |-> <<s.step, k, e>>]

\* process_experience_fn(state.params, sample)
process_experience_result(s, smp) == <<"experiences", s.step, smp>>

\* loss /= self.config.num_epochs  (float division, kept as an exact ratio)
total_loss_NoDivision(l, n) == [num |-> l, den |-> 1]
total_loss(l, n) == [num |-> l, den |-> n]

RatEq(a, b) == a.num * b.den = b.num * a.den

RECURSIVE SeqSum(_)
SeqSum(s) == IF s = <<>> THEN 0 ELSE s[1] + SeqSum(Tail(s))

InitUpdate ==
    /\ pc = "Idle"
    /\ outcome = "none"
    /\ self_state = [step |-> 0, by |-> <<>>]
    /\ self_key = RootKey
    /\ num_epochs \in 0..MaxEpochs
    /\ state = [step |-> 0, by |-> <<>>]
    /\ key = RootKey
    /\ sample = 0
    /\ experiences = <<>>
    /\ epoch = 0
    /\ loss = 0
    /\ info = NoInfo
    /\ ret = NoRet
    /\ h_update = NoHistory
    /\ call = NoCall
    /\ loss_call = NoLossCall

\* a caller invokes agent.update(buffer)
update_Call ==
    /\ pc = "Idle"
    /\ h_update.n_updates < MaxUpdates
    /\ pc' = "Sampling"
    /\ outcome' = "none"
    /\ h_update' = [NoHistory EXCEPT !.state_at_call = self_state,
                                     !.n_updates = h_update.n_updates + 1]
    /\ ret' = NoRet
    /\ call' = NoCall
    /\ UNCHANGED <<self_state, self_key, num_epochs, state, key, sample,
                   experiences, epoch, loss, info, loss_call>>

\* line 157: sample = buffer.sample(); line 158 evaluates fn's arguments
\* self.state and self.nextkey() and enters fn
update_Sample ==
    /\ pc = "Sampling"
    /\ \E smp \in 1..2 : sample' = smp
    /\ state' = self_state
    /\ key' = nextkey_sub(self_key)
    /\ self_key' = nextkey_root(self_key)
    /\ h_update' = [h_update EXCEPT !.n_sample = @ + 1]
    /\ experiences' = <<>>
    /\ epoch' = 0
    /\ loss' = 0
    /\ info' = NoInfo
    /\ pc' = "Processing"
    /\ UNCHANGED <<outcome, self_state, num_epochs, ret, call, loss_call>>

\* line 145: experiences = self.process_experience_fn(state.params, sample)
update_Process ==
    /\ pc = "Processing"
    /\ experiences' = process_experience_result(state, sample)
    /\ h_update' = [h_update EXCEPT !.n_process = @ + 1]
    /\ pc' = "Epoch"
    /\ UNCHANGED <<outcome, self_state, self_key, num_epochs, state, key,
                   sample, epoch, loss, info, ret, call, loss_call>>

\* what one iteration of the epoch loop leaves in self.state: nothing is
\* stored before fn returns
self_state_in_loop_Store(stored, new) == new
self_state_in_loop(stored, new) == stored

\* line 148: for epoch in range(self.config.num_epochs)
epoch_loop_OneMore(done, n) == done <= n
epoch_loop(done, n) == done < n

\* lines 148-151: one iteration of the epoch loop
update_EpochStep ==
    /\ pc = "Epoch"
    /\ epoch_loop(epoch, num_epochs)
    /\ \E l \in 0..MaxLoss :
         LET _k == split(key, 2)[2]
             new == update_step_state(state, _k)
             inf == update_step_info(state, _k, experiences)
         IN /\ key' = split(key, 2)[1]
            /\ state' = new
            /\ info' = inf
            /\ loss' = loss + l
            /\ self_state' = self_state_in_loop(self_state, new)
            /\ h_update' = [h_update EXCEPT !.n_step = @ + 1,
                                            !.keys = Append(@, _k),
                                            !.losses = Append(@, l),
                                            !.infos = Append(@, inf),
                                            !.states = Append(@, new)]
    /\ epoch' = epoch + 1
    /\ UNCHANGED <<pc, outcome, self_key, num_epochs, sample, experiences, ret,
                   call, loss_call>>

\* lines 153-155 and 158-159 with num_epochs >= 1: average, return, store
update_Return ==
    /\ pc = "Epoch"
    /\ ~epoch_loop(epoch, num_epochs)
    /\ num_epochs # 0
    /\ LET out == [diag |-> info.diag, total_loss |-> total_loss(loss, num_epochs)]
       IN /\ ret' = out
          /\ info' = NoInfo
    /\ self_state' = state
    /\ pc' = "Idle"
    /\ outcome' = "returned"
    /\ UNCHANGED <<self_key, num_epochs, state, key, sample, experiences,
                   epoch, loss, h_update, call, loss_call>>

\* line 153 with num_epochs = 0: 0.0 / 0 raises ZeroDivisionError
update_ZeroDivision ==
    /\ pc = "Epoch"
    /\ ~epoch_loop(epoch, num_epochs)
    /\ num_epochs = 0
    /\ pc' = "Idle"
    /\ outcome' = "raised"
    /\ UNCHANGED <<self_state, self_key, num_epochs, state, key, sample,
                   experiences, epoch, loss, info, ret, h_update, call, loss_call>>

\* process_experience_fn or update_step_fn raises (a shape error, a fatal
\* numeric condition): the exception leaves fn and update
update_Raise ==
    /\ \/ pc = "Processing"
       \/ pc = "Epoch" /\ epoch_loop(epoch, num_epochs)
    /\ pc' = "Idle"
    /\ outcome' = "raised"
    /\ UNCHANGED <<self_state, self_key, num_epochs, state, key, sample,
                   experiences, epoch, loss, info, ret, h_update, call, loss_call>>

NextUpdate ==
    \/ update_Call
    \/ update_Sample
    \/ update_Process
    \/ update_EpochStep
    \/ update_Return
    \/ update_ZeroDivision
    \/ update_Raise

SpecUpdate == InitUpdate /\ [][NextUpdate]_vars

----------------------------------------------------------------------------
(* Arrays and agent mappings.                                              *)
(* An array is a nested sequence, outermost axis first.  A mapping keyed   *)
(* by agent id (a Python dict) is a sequence of [k, v] entries in          *)
(* insertion order, which is the order .keys(), .values(), .items() give.  *)

MaxAgents == 2
MaxEnvs == 2
MaxT == 2
ObsDim == 2

Keys(d) == [i \in 1..Len(d) |-> d[i].k]
Values(d) == [i \in 1..Len(d) |-> d[i].v]
Get(d, a) == d[CHOOSE i \in 1..Len(d) : d[i].k = a].v
Dict(ks, F(_)) == [i \in 1..Len(ks) |-> [k |-> ks[i], v |-> F(ks[i])]]
Sorted(ks) == SortSeq(ks, LAMBDA x, y : x < y)
Perms(n) == {p \in [1..n -> 1..n] : \A i, j \in 1..n : i # j => p[i] # p[j]}

RECURSIVE Flatten(_)
Flatten(ss) == IF ss = <<>> THEN <<>> ELSE ss[1] \o Flatten(Tail(ss))

\* jnp.concatenate(xs, axis=1)
concatenate_axis1(xs) == [t \in 1..Len(xs[1]) |-> Flatten([i \in 1..Len(xs) |-> xs[i][t]])]
\* jnp.stack(xs, axis=1)
stack_axis1(xs) == [t \in 1..Len(xs[1]) |-> [i \in 1..Len(xs) |-> xs[i][t]]]
\* jnp.reshape(x, (-1, *x.shape[2:])): axes 0 and 1 merged, row-major
reshape_merge(x) == Flatten(x)
\* jnp.expand_dims(x, axis=0) and jnp.squeeze(x, axis=0)
expand_dims(x) == <<x>>
squeeze(x) == x[1]
\* x[..., None] on an array of rank 1 (time) or 2 (time, env)
new_last_axis(x, vec) ==
    IF vec THEN [t \in 1..Len(x) |-> [e \in 1..Len(x[t]) |-> <<x[t][e]>>]]
    ELSE [t \in 1..Len(x) |-> <<x[t]>>]

\* jax.tree_map over mappings: the result is rebuilt with its keys sorted
tree_map(F(_), d) == Dict(Sorted(Keys(d)), LAMBDA a : F(Get(d, a)))

\* `key, ... = jax.random.split(key, n)` executed i times: the carried key
RECURSIVE carried_key(_, _, _)
carried_key(k, i, n) == IF i = 0 THEN k ELSE split(carried_key(k, i - 1, n), n)[1]

----------------------------------------------------------------------------
(* The data of one rollout.  Every scalar is tagged with the field, agent, *)
(* environment index, time step (and feature index) it was recorded for.   *)

Fields == {"observation", "action", "log_prob"}

Cell(f, a, e, t) == [f |-> f, a |-> a, e |-> e, t |-> t]

\* what the environment gives for agent a at time t: with n_envs > 1 every
\* tensor has a leading environment axis
raw(f, a, t, n_envs) ==
    LET one(e) == IF f = "observation"
                  THEN [d \in 1..ObsDim |-> [Cell(f, a, e, t) EXCEPT !.f = <<"observation", d>>]]
                  ELSE Cell(f, a, e, t)
    IN IF n_envs > 1 THEN [e \in 1..n_envs |-> one(e)] ELSE one(1)

\* the list the buffer returns: T experiences.  With `par` every field is a
\* mapping from agent id to tensor, inserted in the order `order`; without,
\* a bare tensor of the only agent.
buffer_sample(order, T, n_envs, par) ==
    [t \in 1..T |->
        [f \in Fields |->
            IF par THEN Dict(order, LAMBDA a : raw(f, a, t, n_envs))
            ELSE raw(f, order[1], t, n_envs)]]

\* stack_experiences: every leaf stacked along a new leading time axis.  The
\* agent mappings come out either in the insertion order of the first
\* experience (`keep`) or in sorted agent order, as a jax.tree_map gives them
stack_experiences(smp, par, keep) ==
    [f \in Fields |->
        IF par THEN Dict(IF keep THEN Keys(smp[1][f]) ELSE Sorted(Keys(smp[1][f])),
                         LAMBDA a : [t \in 1..Len(smp) |-> Get(smp[t][f], a)])
        ELSE [t \in 1..Len(smp) |-> smp[t][f]]]

\* the single-instance slice of agent a, environment e: what one environment
\* with one agent would have recorded over the T steps
instance(a, e, T) ==
    [f \in Fields |-> [t \in 1..T |->
        IF f = "observation"
        THEN [d \in 1..ObsDim |-> [Cell(f, a, e, t) EXCEPT !.f = <<"observation", d>>]]
        ELSE Cell(f, a, e, t)]]

OutFields == {"gaes", "targets", "values"}

\* the wrapped process_experience_fn(state, key, experience) for one
\* environment and one agent: three arrays of shape (T, 1), row t computed
\* from the instance's row t under the given state and key
process_experience_fn(st, k, exp) ==
    [o \in OutFields |->
        [t \in 1..Len(exp["observation"]) |->
            LET src == exp["observation"][t][1]
            IN << [f |-> o, a |-> src.a, e |-> src.e, t |-> src.t, key |-> k, state |-> st] >>]]

----------------------------------------------------------------------------
(* process_experience_general_factory (src/rl_tools/algos/factory.py:69-131) *)

vectorized(n_envs) == n_envs > 1
parallel(n_agents) == n_agents > 1

\* the fields of agent a
agent_experience(exp, a) == [f \in Fields |-> Get(exp[f], a)]
\* column e of axis 1 of every field
env_slice(exp, e) == [f \in Fields |-> [t \in 1..Len(exp[f]) |-> exp[f][t][e]]]

\* jax.vmap(_process_experience_fn, in_axes=1, out_axes=1)(keys, *experience)
vmap_process(st, ks, exp) ==
    LET E == Len(exp["observation"][1])
        outs == [e \in 1..E |-> process_experience_fn(st, ks[e], env_slice(exp, e))]
    IN [o \in OutFields |->
          [t \in 1..Len(exp["observation"]) |-> [e \in 1..E |-> outs[e][o][t]]]]

keys_parallel_vectorized_OffByOne(k, exp) ==
    LET agents == Keys(exp["observation"])
        E(a) == Len(Get(exp["observation"], a)[1])
    IN [i \in 1..Len(agents) |->
          [k |-> agents[i],
           v |-> LET new_keys == split(carried_key(k, i - 1, E(agents[i]) + 1), E(agents[i]) + 1)
                 IN [e \in 1..E(agents[i]) |-> new_keys[e]]]]

\* lines 82-86: keys[agent] for the agents in the order of
\* experience.observation.items(); new_keys[1:] are the agent's sub-keys
\* (swapaxes moves the index onto the axis vmap maps over)
keys_parallel_vectorized(k, exp) ==
    LET agents == Keys(exp["observation"])
        E(a) == Len(Get(exp["observation"], a)[1])
    IN [i \in 1..Len(agents) |->
          [k |-> agents[i],
           v |-> LET new_keys == split(carried_key(k, i - 1, E(agents[i]) + 1), E(agents[i]) + 1)
                 IN [e \in 1..E(agents[i]) |-> new_keys[e + 1]]]]

\* lines 103-106: key, _k = jax.random.split(key, 2); keys[agent] = _k
keys_parallel_SameKey(k, exp) ==
    LET agents == Keys(exp["observation"])
    IN [i \in 1..Len(agents) |-> [k |-> agents[i], v |-> split(k, 2)[2]]]
keys_parallel(k, exp) ==
    LET agents == Keys(exp["observation"])
    IN [i \in 1..Len(agents) |->
          [k |-> agents[i], v |-> split(carried_key(k, i - 1, 2), 2)[2]]]

\* line 119: jax.random.split(key, experience.observation.shape[1])
keys_vectorized(k, exp) == split(k, Len(exp["observation"][1]))

\* lines 81-100
fn_parallel_vectorized(st, k, exp) ==
    LET keys == keys_parallel_vectorized(k, exp)
        agents == Sorted(Keys(keys))
        outputs == Dict(agents, LAMBDA a : vmap_process(st, Get(keys, a), agent_experience(exp, a)))
    IN [o \in OutFields |->
          reshape_merge(concatenate_axis1([i \in 1..Len(outputs) |-> outputs[i].v[o]]))]

\* lines 102-116
fn_parallel(st, k, exp) ==
    LET keys == keys_parallel(k, exp)
        agents == Sorted(Keys(keys))
        outputs == Dict(agents, LAMBDA a : process_experience_fn(st, Get(keys, a), agent_experience(exp, a)))
    IN [o \in OutFields |->
          reshape_merge(stack_axis1([i \in 1..Len(outputs) |-> outputs[i].v[o]]))]

\* lines 118-126
fn_vectorized(st, k, exp) ==
    LET outputs == vmap_process(st, keys_vectorized(k, exp), exp)
    IN [o \in OutFields |-> reshape_merge(outputs[o])]

\* lines 128-129
fn_neither_SplitKey(st, k, exp) == process_experience_fn(st, split(k, 2)[2], exp)
fn_neither(st, k, exp) == process_experience_fn(st, k, exp)

\* lines 75-129: fn(state, key, experience)
process_experience_general(st, k, smp, vec, par, keep) ==
    LET experience == stack_experiences(smp, par, keep)
    IN IF par /\ vec THEN fn_parallel_vectorized(st, k, experience)
       ELSE IF par THEN fn_parallel(st, k, experience)
       ELSE IF vec THEN fn_vectorized(st, k, experience)
       ELSE fn_neither(st, k, experience)

\* the sub-key each (agent, environment index) pair is processed with, and
\* the keys carried from one agent to the next
handed_general(k, smp, vec, par, keep) ==
    LET experience == stack_experiences(smp, par, keep)
        only == 1
    IN IF par /\ vec
       THEN LET keys == keys_parallel_vectorized(k, experience)
            IN {[a |-> keys[i].k, e |-> e, key |-> keys[i].v[e]] :
                    i \in 1..Len(keys), e \in 1..Len(experience["observation"][1].v[1])}
       ELSE IF par
       THEN LET keys == keys_parallel(k, experience)
            IN {[a |-> keys[i].k, e |-> 1, key |-> keys[i].v] : i \in 1..Len(keys)}
       ELSE IF vec
       THEN LET keys == keys_vectorized(k, experience)
            IN {[a |-> only, e |-> e, key |-> keys[e]] : e \in 1..Len(keys)}
       ELSE {[a |-> only, e |-> 1, key |-> k]}

carried_general(k, smp, vec, par, keep) ==
    LET n == Len(Keys(stack_experiences(smp, par, keep)["observation"]))
        E == Len(stack_experiences(smp, par, keep)["observation"][1].v[1])
    IN IF par /\ vec THEN {carried_key(k, i, E + 1) : i \in 1..n}
       ELSE IF par THEN {carried_key(k, i, 2) : i \in 1..n}
       ELSE {}

----------------------------------------------------------------------------
(* process_experience_factory (src/rl/algos/ippo.py:22-95)                 *)

\* compute_values_gaes for one environment: from observations of shape
\* (T, ...) three arrays of shape (T, 1)
compute_values_gaes(observations) ==
    [o \in OutFields |->
        [t \in 1..Len(observations) |->
            LET src == observations[t][1]
            IN << [f |-> o, a |-> src.a, e |-> src.e, t |-> src.t] >>]]

\* lines 53-55: gaes_fn = jax.vmap(gaes_fn, in_axes=(None, 1, 1, 1, 1), out_axes=1)
gaes_fn(observations, vec) ==
    IF vec
    THEN LET E == Len(observations[1])
             outs == [e \in 1..E |->
                        compute_values_gaes([t \in 1..Len(observations) |-> observations[t][e]])]
         IN [o \in OutFields |->
               [t \in 1..Len(observations) |-> [e \in 1..E |-> outs[e][o][t]]]]
    ELSE compute_values_gaes(observations)

\* lines 58-93: fn(params, sample)
process_experience_ippo(smp, vec, keep) ==
    LET stacked == stack_experiences(smp, TRUE, keep)
        observations == stacked["observation"]
        \* lines 62-73: one entry per agent, in the order of observations.keys()
        per_agent == Dict(Keys(observations), LAMBDA a : gaes_fn(Get(observations, a), vec))
        actions == tree_map(LAMBDA x : new_last_axis(x, vec), stacked["action"])
        log_probs == tree_map(LAMBDA x : new_last_axis(x, vec), stacked["log_prob"])
        \* lines 78-83
        cat == [observations |-> concatenate_axis1(Values(observations)),
                actions |-> concatenate_axis1(Values(actions)),
                log_probs |-> concatenate_axis1(Values(log_probs)),
                gaes |-> concatenate_axis1([i \in 1..Len(per_agent) |-> per_agent[i].v["gaes"]]),
                targets |-> concatenate_axis1([i \in 1..Len(per_agent) |-> per_agent[i].v["targets"]]),
                values |-> concatenate_axis1([i \in 1..Len(per_agent) |-> per_agent[i].v["values"]])]
    IN \* lines 85-91
       IF vec THEN [f \in DOMAIN cat |-> reshape_merge(cat[f])] ELSE cat

----------------------------------------------------------------------------
(* PPO.explore (src/rl/algos/ippo.py:128-138)                              *)

\* self.explore_fn(params, _k, obs): the action and log-probability sampled
\* for the observation tensor of one agent with the key _k
explore_fn_agent(st, k, obs) ==
    [action |-> [f |-> "action", key |-> k, obs |-> obs, state |-> st],
     log_prob |-> [f |-> "log_prob", key |-> k, obs |-> obs, state |-> st]]

\* lines 131-132: the key _k of the i-th entry of observation.items()
explore_key(k, i) == split(carried_key(k, i - 1, 2), 2)[2]

\* lines 129-136: fn(params, key, observation)
explore(st, k, observation) ==
    LET res(i) == explore_fn_agent(st, explore_key(k, i), observation[i].v)
    IN [action |-> [i \in 1..Len(observation) |-> [k |-> observation[i].k, v |-> res(i).action]],
        log_prob |-> [i \in 1..Len(observation) |-> [k |-> observation[i].k, v |-> res(i).log_prob]]]

\* the sub-key under which the action of (agent, environment index) is sampled
handed_explore(k, observation, n_envs) ==
    {[a |-> observation[i].k, e |-> e, key |-> explore_key(k, i)] :
        i \in 1..Len(observation), e \in 1..n_envs}

carried_explore(k, observation) == {carried_key(k, i, 2) : i \in 1..Len(observation)}

\* the observation of one environment step: a mapping inserted in `order`
observation_dict(order, n_envs) == Dict(order, LAMBDA a : raw("observation", a, 1, n_envs))

----------------------------------------------------------------------------
(* explore_general_factory (src/rl_tools/algos/factory.py:45-66), for one  *)
(* agent (parallel = False)                                                *)

\* the wrapped explore_fn: a batched layer, row i of the batch sampled
\* independently from the key; for one instance it is row 1 of a batch of 1
sample_row(st, k, i, obs) ==
    [action |-> [f |-> "action", key |-> k, row |-> i, obs |-> obs, state |-> st],
     log_prob |-> [f |-> "log_prob", key |-> k, row |-> i, obs |-> obs, state |-> st]]
explore_fn_batched(st, k, batch) ==
    [action |-> [i \in 1..Len(batch) |-> sample_row(st, k, i, batch[i]).action],
     log_prob |-> [i \in 1..Len(batch) |-> sample_row(st, k, i, batch[i]).log_prob]]
sample_instance(st, k, obs) == sample_row(st, k, 1, obs)

\* lines 48-51
input_fn(inputs, vec) == IF ~vec THEN expand_dims(inputs) ELSE inputs
\* lines 55-58
output_fn(outputs, vec) ==
    IF ~vec THEN [f \in DOMAIN outputs |-> squeeze(outputs[f])] ELSE outputs
\* lines 60-64
explore_general(st, k, obs, vec) == output_fn(explore_fn_batched(st, k, input_fn(obs, vec)), vec)

----------------------------------------------------------------------------
(* Calls of the lifts.  `call` records one call, made while the agent      *)
(* collects experience before its first update; an update call clears the *)
(* record.                                                                 *)

CallKeys == {RootKey, split(RootKey, 2)[2]}

Orders(n) == {[i \in 1..n |-> p[i]] : p \in Perms(n)}

Collecting == pc = "Idle" /\ h_update.n_updates = 0 /\ call.op = "none"

\* agent.explore(observation)
Call_explore ==
    /\ Collecting
    /\ \E n_agents \in 1..MaxAgents, n_envs \in 1..MaxEnvs :
       \E order \in Orders(n_agents) :
         LET k == nextkey_sub(self_key)
             observation == observation_dict(order, n_envs)
         IN call' = [op |-> "explore", n_envs |-> n_envs, n_agents |-> n_agents, T |-> 1,
                     order |-> order, keep |-> TRUE, state |-> self_state, key |-> k,
                     out |-> explore(self_state, k, observation),
                     handed |-> handed_explore(k, observation, n_envs),
                     carried |-> carried_explore(k, observation)]
    /\ self_key' = nextkey_root(self_key)
    /\ UNCHANGED <<pc, outcome, self_state, num_epochs, state, key, sample,
                   experiences, epoch, loss, info, ret, h_update, loss_call>>

\* self.explore_fn(state, key, observation) of a one-agent pipeline agent
Call_explore_general ==
    /\ Collecting
    /\ \E n_envs \in 1..MaxEnvs, k \in CallKeys :
         LET obs == raw("observation", 1, 1, n_envs)
         IN call' = [op |-> "explore_general", n_envs |-> n_envs, n_agents |-> 1, T |-> 1,
                     order |-> <<1>>, keep |-> TRUE, state |-> self_state, key |-> k,
                     out |-> explore_general(self_state, k, obs, vectorized(n_envs)),
                     handed |-> {}, carried |-> {}]
    /\ UNCHANGED <<uvars, loss_call>>

\* the jitted fn of process_experience_general_factory
Call_process_experience_general ==
    /\ Collecting
    /\ \E n_agents \in 1..MaxAgents, n_envs \in 1..MaxEnvs, T \in 1..MaxT, k \in CallKeys :
       \E order \in Orders(n_agents), keep \in BOOLEAN :
         LET vec == vectorized(n_envs)
             par == parallel(n_agents)
             smp == buffer_sample(order, T, n_envs, par)
         IN call' = [op |-> "process_experience_general", n_envs |-> n_envs,
                     n_agents |-> n_agents, T |-> T, order |-> order, keep |-> keep,
                     state |-> self_state, key |-> k,
                     out |-> process_experience_general(self_state, k, smp, vec, par, keep),
                     handed |-> handed_general(k, smp, vec, par, keep),
                     carried |-> carried_general(k, smp, vec, par, keep)]
    /\ UNCHANGED <<uvars, loss_call>>

\* the jitted fn of process_experience_factory (IPPO)
Call_process_experience_ippo ==
    /\ Collecting
    /\ \E n_agents \in 1..MaxAgents, n_envs \in 1..MaxEnvs, T \in 1..MaxT :
       \E order \in Orders(n_agents), keep \in BOOLEAN :
         LET smp == buffer_sample(order, T, n_envs, TRUE)
         IN call' = [op |-> "process_experience_ippo", n_envs |-> n_envs,
                     n_agents |-> n_agents, T |-> T, order |-> order, keep |-> keep,
                     state |-> self_state, key |-> RootKey,
                     out |-> process_experience_ippo(smp, vectorized(n_envs), keep),
                     handed |-> {}, carried |-> {}]
    /\ UNCHANGED <<uvars, loss_call>>

NextBatch ==
    \/ Call_explore
    \/ Call_explore_general
    \/ Call_process_experience_general
    \/ Call_process_experience_ippo
    \/ update_Call
    \/ update_Sample
    \/ update_Process
    \/ update_EpochStep
    \/ update_Return
    \/ update_ZeroDivision
    \/ update_Raise

SpecBatch == InitUpdate /\ [][NextBatch]_vars

----------------------------------------------------------------------------
(* Properties of the batching lifts and of the key splitting               *)

IsProcessGeneral == call.op = "process_experience_general"
Vec == vectorized(call.n_envs)
Par == parallel(call.n_agents)

\* C2: in the parallel regimes of process_experience and in PPO.explore the
\* sub-key of an agent depends only on the root key and the agent's rank in
\* sorted agent-id order: a call made with the same root key and data, with
\* the agent mapping inserted in any other order, hands every (agent,
\* environment index) the same sub-key.  (For process_experience, stated for
\* the calls whose stacked mappings are in sorted agent order.)
C2_SubKeyIndependentOfInsertionOrder ==
    /\ call.op = "explore" =>
         \A order2 \in Orders(call.n_agents) :
            handed_explore(call.key, observation_dict(order2, call.n_envs), call.n_envs)
                = call.handed
    /\ (IsProcessGeneral /\ Par /\ ~call.keep) =>
         \A order2 \in Orders(call.n_agents) :
            handed_general(call.key, buffer_sample(order2, call.T, call.n_envs, TRUE),
                           Vec, TRUE, call.keep)
                = call.handed

PairwiseDistinctByPair(handed) ==
    \A r1, r2 \in handed : (r1.a # r2.a \/ r1.e # r2.e) => r1.key # r2.key
PairwiseDistinctByAgent(handed) ==
    \A r1, r2 \in handed : r1.a # r2.a => r1.key # r2.key
NoneCarried == \A r \in call.handed : r.key \notin call.carried
EpochKeysDistinct ==
    \A i, j \in 1..Len(h_update.keys) : i # j => h_update.keys[i] # h_update.keys[j]

\* C3 as stated: within one call of process_experience (vectorized,
\* parallel, vectorized+parallel) and within one call of PPO.explore the
\* sub-keys handed to distinct (agent, environment index) pairs are pairwise
\* distinct and none is a carried key; the epoch sub-keys of one update call
\* are pairwise distinct.
C3_Original ==
    /\ (IsProcessGeneral /\ (Vec \/ Par)) => PairwiseDistinctByPair(call.handed) /\ NoneCarried
    /\ call.op = "explore" => PairwiseDistinctByPair(call.handed) /\ NoneCarried
    /\ EpochKeysDistinct

\* C3 (amended): within one call of process_experience (vectorized,
\* parallel, vectorized+parallel) the sub-keys of distinct (agent,
\* environment index) pairs are pairwise distinct; within one call of
\* PPO.explore the sub-keys of distinct agents are pairwise distinct (an
\* agent's sub-key serves all of its environment indices); no sub-key equals
\* a carried key; the epoch sub-keys of one update call are pairwise distinct.
C3_SubKeysDistinct ==
    /\ (IsProcessGeneral /\ (Vec \/ Par)) => PairwiseDistinctByPair(call.handed) /\ NoneCarried
    /\ call.op = "explore" => PairwiseDistinctByAgent(call.handed) /\ NoneCarried
    /\ EpochKeysDistinct

C3_Witness ==
    /\ IsProcessGeneral /\ call.n_envs >= 2 /\ call.n_agents >= 2
    /\ Cardinality(call.handed) = call.n_envs * call.n_agents
    /\ call.carried # {}

\* the sub-key of the i-th agent of the stacked observation mapping and
\* environment index e: the key is carried i - 1 times through
\* split(key, E + 1)[0], then split(key, E + 1)[e] is taken
derived_sub_key(k, i, e, E) ==
    k \o [j \in 1..(i - 1) |-> <<E + 1, 0>>] \o << <<E + 1, e>> >>

\* the agents in the order of the stacked observation mapping, and the
\* place of agent a in it
StackedAgents == IF call.keep THEN call.order ELSE Sorted(call.order)
Place(a) == CHOOSE i \in 1..Len(StackedAgents) : StackedAgents[i] = a

\* the single-instance function called directly on the slice of agent a
\* (whose sorted rank is a) and environment e with the sub-key derived for it
direct_call(a, e) ==
    process_experience_fn(call.state, derived_sub_key(call.key, Place(a), e, call.n_envs),
                          instance(a, e, call.T))

\* C4 as stated: for vectorized+parallel input the flattened output has
\* leading dimension E x A and its entry at position (agent a, env e) is a
\* value of the direct single-instance call on the (a, e) slice with the
\* sub-key derived for (a, e).
C4_Original ==
    (IsProcessGeneral /\ Vec /\ Par) =>
        \A o \in OutFields :
            /\ Len(call.out[o]) = call.n_envs * call.n_agents
            /\ \A i \in 1..call.n_agents, e \in 1..call.n_envs :
                 \E t \in 1..call.T :
                    call.out[o][(i - 1) * call.n_envs + e] = direct_call(i, e)[o][t]

\* C4 (amended): for vectorized+parallel input with T time steps the
\* flattened output has leading dimension T x A x E, and its row
\* (t-1)*A*E + (i-1)*E + e, for the agent of sorted rank i, equals row t of
\* the direct single-instance call on the (agent, e) slice with the sub-key
\* derived for (agent, e).
C4_FlattenedLayout ==
    (IsProcessGeneral /\ Vec /\ Par) =>
        \A o \in OutFields :
            /\ Len(call.out[o]) = call.T * call.n_agents * call.n_envs
            /\ \A t \in 1..call.T, i \in 1..call.n_agents, e \in 1..call.n_envs :
                 call.out[o][(t - 1) * call.n_agents * call.n_envs + (i - 1) * call.n_envs + e]
                    = direct_call(i, e)[o][t]

C4_Witness ==
    /\ IsProcessGeneral /\ call.n_envs >= 2 /\ call.n_agents >= 2 /\ call.T >= 2
    /\ call.order # Sorted(call.order) /\ call.keep
    /\ Len(call.out["gaes"]) = call.T * call.n_agents * call.n_envs

Triple(c) == <<c.t, c.a, c.e>>
RowTriples(row) == {Triple(row[j]) : j \in 1..Len(row)}
AllTriples == (1..call.T) \X (1..call.n_agents) \X (1..call.n_envs)

\* C5: in every batching regime the flattened batch has exactly one row for
\* each (time step, agent, environment index) triple, every row holds data
\* of one triple only, and all returned fields use the same row index for
\* the same triple.  (Stated for the calls whose stacked mappings are in
\* sorted agent order.)
C5_OneRowPerTriple ==
    ((IsProcessGeneral \/ call.op = "process_experience_ippo") /\ ~call.keep) =>
        /\ \A f \in DOMAIN call.out :
             /\ Len(call.out[f]) = Cardinality(AllTriples)
             /\ \A r \in 1..Len(call.out[f]) : Cardinality(RowTriples(call.out[f][r])) = 1
             /\ \A tr \in AllTriples : \E r \in 1..Len(call.out[f]) : tr \in RowTriples(call.out[f][r])
        /\ \A f, g \in DOMAIN call.out :
             Len(call.out[f]) = Len(call.out[g])
             /\ \A r \in 1..Len(call.out[f]) : RowTriples(call.out[f][r]) = RowTriples(call.out[g][r])

\* C6: with n_envs = 1 and n_agents = 1 the lifts are transparent:
\* process_experience returns what the wrapped single-instance function
\* returns for the same state, the unsplit key and the stacked experience,
\* and explore returns what the wrapped sampling function returns for the
\* same key and observation.
C6_DegenerateTransparent ==
    /\ (IsProcessGeneral /\ call.n_envs = 1 /\ call.n_agents = 1) =>
         /\ call.out = process_experience_fn(call.state, call.key,
                          stack_experiences(buffer_sample(call.order, call.T, 1, FALSE),
                                            FALSE, call.keep))
         /\ call.out = process_experience_fn(call.state, call.key, instance(1, 1, call.T))
    /\ (call.op = "explore_general" /\ call.n_envs = 1) =>
         call.out = sample_instance(call.state, call.key, raw("observation", 1, 1, 1))

C6_Witness ==
    /\ IsProcessGeneral /\ call.n_envs = 1 /\ call.n_agents = 1 /\ call.T >= 2
    /\ Len(call.out["gaes"]) = call.T

----------------------------------------------------------------------------
(* Properties of PPO.update                                                *)

Returned == pc = "Idle" /\ outcome = "returned"
Raised == pc = "Idle" /\ outcome = "raised"

PhaseCounts ==
    /\ pc = "Sampling" =>
         h_update.n_sample = 0 /\ h_update.n_process = 0 /\ h_update.n_step = 0
    /\ pc = "Processing" =>
         h_update.n_sample = 1 /\ h_update.n_process = 0 /\ h_update.n_step = 0
    /\ pc = "Epoch" =>
         h_update.n_sample = 1 /\ h_update.n_process = 1 /\ h_update.n_step = epoch
         /\ epoch <= num_epochs
    /\ Returned =>
         /\ h_update.n_sample = 1 /\ h_update.n_process = 1
         /\ h_update.n_step = num_epochs
         /\ self_state.step = h_update.state_at_call.step + num_epochs

PhaseOrder ==
    pc' # pc => <<pc, pc'>> \in {<<"Idle", "Sampling">>, <<"Sampling", "Processing">>,
                                 <<"Processing", "Epoch">>, <<"Epoch", "Idle">>,
                                 <<"Processing", "Idle">>}

\* C1: one update call goes Sampling -> Processing -> epoch steps -> Idle:
\* buffer.sample() is called once, process_experience_fn once and before
\* any epoch step, update_step_fn exactly num_epochs times, so that the
\* stored TrainState has advanced by num_epochs steps when update returns;
\* over any sequence of update calls the step count never decreases.
C1_UpdatePhases ==
    /\ []PhaseCounts
    /\ [][PhaseOrder]_vars
    /\ [][pc' = "Epoch" /\ pc # "Epoch" => h_update'.n_step = 0]_vars
    /\ [][self_state'.step >= self_state.step]_vars

C1_Witness ==
    /\ Returned /\ num_epochs >= 2 /\ h_update.n_updates = 2
    /\ self_state.step = 2 * num_epochs

Last(q) == q[Len(q)]

C10_AllOrNothing ==
    /\ [](pc # "Idle" \/ Raised => self_state = h_update.state_at_call)
    /\ [][self_state' # self_state =>
            pc = "Epoch" /\ epoch = num_epochs /\ pc' = "Idle" /\ outcome' = "returned"]_vars

C10_Witness ==
    /\ Raised /\ h_update.n_step >= 1
    /\ state.step > self_state.step
    /\ self_state = h_update.state_at_call

----------------------------------------------------------------------------
(* src/rl/loss.py                                                          *)
(* An array is [shape, data] with the data flat, row-major.  Numbers are   *)
(* exact: a log-probability k stands for k * ln 2, so that exp of a        *)
(* difference d is 2^d; ratios and clip_eps are counted in units of        *)
(* 1 / Unit; a mean is kept as the ratio [num, den].                       *)

MaxBatch == 2
MaxLogProb == 1
MaxGae == 1
MaxClipEps == 2
MaxValue == 1
NActions == 2

Unit == 2 ^ MaxLogProb

RECURSIVE Size(_)
Size(shape) == IF shape = <<>> THEN 1 ELSE shape[1] * Size(Tail(shape))

Min(x, y) == IF x <= y THEN x ELSE y
Max(x, y) == IF x >= y THEN x ELSE y

\* jnp.exp of d * ln 2, in units of 1 / Unit
exp(d) == 2 ^ (d + MaxLogProb)
\* jnp.clip(x, lo, hi) = minimum(maximum(x, lo), hi)
clip(x, lo, hi) == Min(Max(x, lo), hi)
\* jnp.mean of a flat integer array whose entries count 1 / unit
mean(xs, unit) == [num |-> SeqSum(xs), den |-> unit * Len(xs)]
neg(r) == [num |-> 0 - r.num, den |-> r.den]

\* chex.assert_equal_shape(arrays)
assert_equal_shape_BySize(arrays) ==
    \A i, j \in 1..Len(arrays) : Size(arrays[i].shape) = Size(arrays[j].shape)
assert_equal_shape(arrays) ==
    \A i, j \in 1..Len(arrays) : arrays[i].shape = arrays[j].shape

ShapeError == [status |-> "shape_error"]

\* line 32: ratios_clip = jnp.clip(ratios, 1 - clip_eps, 1 + clip_eps)
ratios_clip_AroundZero(ratios, clip_eps) ==
    [i \in 1..Len(ratios) |-> clip(ratios[i], 0 - clip_eps, clip_eps)]
ratios_clip(ratios, clip_eps) ==
    [i \in 1..Len(ratios) |-> clip(ratios[i], Unit - clip_eps, Unit + clip_eps)]

\* lines 7-45
loss_policy_ppo_discrete(logits, log_probs, log_probs_old, gaes, clip_eps, entropy_coef) ==
    IF ~assert_equal_shape(<<log_probs, log_probs_old, gaes>>) THEN ShapeError
    ELSE
      LET n == Len(log_probs.data)
          log_ratios == [i \in 1..n |-> log_probs.data[i] - log_probs_old.data[i]]
          ratios == [i \in 1..n |-> exp(log_ratios[i])]
          clipped == ratios_clip(ratios, clip_eps)
          loss_policy == neg(mean([i \in 1..n |-> Min(ratios[i] * gaes.data[i],
                                                       clipped[i] * gaes.data[i])], Unit))
          entropy == [of |-> "categorical_entropy", logits |-> logits]
          loss_entropy == [of |-> "neg_mean", x |-> entropy]
          \* mean((ratios - 1) - log_ratios): a rational part and a multiple of ln 2
          kl_divergence == [rational |-> mean([i \in 1..n |-> ratios[i] - Unit], Unit),
                            ln2 |-> neg(mean(log_ratios, 1))]
      IN [status |-> "ok",
          loss |-> [loss_policy |-> loss_policy, entropy_coef |-> entropy_coef,
                    loss_entropy |-> loss_entropy],
          infos |-> [loss_policy |-> loss_policy, entropy |-> entropy,
                     kl_divergence |-> kl_divergence]]

\* lines 48-77
loss_value_clip(values, targets, values_old, clip_eps) ==
    IF ~assert_equal_shape(<<values, values_old, targets>>) THEN ShapeError
    ELSE
      LET n == Len(values.data)
          values_clip == [i \in 1..n |->
              clip(values.data[i] - values_old.data[i], 0 - clip_eps, clip_eps)
                  + values_old.data[i]]
          sq(x) == x * x
          loss_value_unclip == [i \in 1..n |-> sq(values.data[i] - targets.data[i])]
          loss_value_clipped == [i \in 1..n |-> sq(values_clip[i] - targets.data[i])]
          loss_value == mean([i \in 1..n |-> Max(loss_value_unclip[i], loss_value_clipped[i])], 1)
      IN [status |-> "ok", loss |-> loss_value, infos |-> [loss_value |-> loss_value]]

Shapes == {<<n>> : n \in 1..MaxBatch} \cup {<<n, 1>> : n \in 1..MaxBatch}
Arrays(shape, Vals) == {[shape |-> shape, data |-> d] : d \in [1..Size(shape) -> Vals]}
Zeros(shape) == [shape |-> shape, data |-> [i \in 1..Size(shape) |-> 0]]
\* three arrays of the given shapes: every filling when the shapes agree,
\* one filling when they do not (the data is then never read)
Triples3(s1, V1, s2, V2, s3, V3) ==
    IF s1 = s2 /\ s2 = s3 THEN Arrays(s1, V1) \X Arrays(s2, V2) \X Arrays(s3, V3)
    ELSE {<<Zeros(s1), Zeros(s2), Zeros(s3)>>}
Logits(n) == [shape |-> <<n, NActions>>, data |-> <<"logits", n>>]
\* the values the arrays are filled from: the extremes and zero
LogProbs == {0 - MaxLogProb, 0}
Gaes == {0 - MaxGae, 0, MaxGae}
StateValues == {0, MaxValue}

InitLoss == InitUpdate /\ num_epochs = 1

Call_loss_policy_ppo_discrete ==
    /\ loss_call.fn = "none"
    /\ \E s1, s2, s3 \in Shapes, clip_eps \in 0..MaxClipEps, n \in {1, MaxBatch} :
       \E in \in Triples3(s1, LogProbs, s2, LogProbs, s3, Gaes) :
         loss_call' = [fn |-> "loss_policy_ppo_discrete", logits |-> Logits(n),
                       log_probs |-> in[1], log_probs_old |-> in[2], gaes |-> in[3],
                       clip_eps |-> clip_eps,
                       result |-> loss_policy_ppo_discrete(Logits(n), in[1], in[2], in[3],
                                                           clip_eps, 1)]
    /\ UNCHANGED <<uvars, call>>

Call_loss_value_clip ==
    /\ loss_call.fn = "none"
    /\ \E s1, s2, s3 \in Shapes, clip_eps \in 0..MaxClipEps :
       \E in \in Triples3(s1, StateValues, s2, StateValues, s3, StateValues) :
         loss_call' = [fn |-> "loss_value_clip", values |-> in[1], targets |-> in[2],
                       values_old |-> in[3], clip_eps |-> clip_eps,
                       result |-> loss_value_clip(in[1], in[2], in[3], clip_eps)]
    /\ UNCHANGED <<uvars, call>>

NextLoss ==
    \/ Call_loss_policy_ppo_discrete
    \/ Call_loss_value_clip

SpecLoss == InitLoss /\ [][NextLoss]_vars

----------------------------------------------------------------------------
(* Properties of the loss functions                                        *)

IsPolicyLoss == loss_call.fn = "loss_policy_ppo_discrete"
IsValueLoss == loss_call.fn = "loss_value_clip"
SameShapes(arrays) == \A i, j \in 1..Len(arrays) : arrays[i].shape = arrays[j].shape

\* C7 as stated: loss_policy_ppo_discrete (logits, log_probs, log_probs_old,
\* gaes) and loss_value_clip (values, targets, values_old) fail with a
\* shape-mismatch error, returning no loss, whenever any two of these
\* inputs differ in shape.
C7_Original ==
    /\ IsPolicyLoss =>
         (~SameShapes(<<loss_call.logits, loss_call.log_probs,
                        loss_call.log_probs_old, loss_call.gaes>>)
            => loss_call.result = ShapeError)
    /\ IsValueLoss =>
         (~SameShapes(<<loss_call.values, loss_call.targets, loss_call.values_old>>)
            => loss_call.result = ShapeError)

\* C7 (amended): loss_policy_ppo_discrete checks log_probs, log_probs_old
\* and gaes, and loss_value_clip checks values, targets and values_old: each
\* fails with a shape-mismatch error, returning no loss, exactly when two of
\* its checked inputs differ in shape, and otherwise averages over every
\* element; the shape of logits is not checked.
C7_ShapeChecked ==
    /\ IsPolicyLoss =>
         /\ loss_call.result = ShapeError
              <=> ~SameShapes(<<loss_call.log_probs, loss_call.log_probs_old, loss_call.gaes>>)
         /\ loss_call.result.status = "ok" =>
              loss_call.result.infos.loss_policy.den = Unit * Size(loss_call.gaes.shape)
    /\ IsValueLoss =>
         /\ loss_call.result = ShapeError
              <=> ~SameShapes(<<loss_call.values, loss_call.targets, loss_call.values_old>>)
         /\ loss_call.result.status = "ok" =>
              loss_call.result.loss.den = Size(loss_call.targets.shape)

C7_Witness ==
    /\ IsPolicyLoss
    /\ loss_call.log_probs.shape = loss_call.log_probs_old.shape
    /\ loss_call.gaes.shape # loss_call.log_probs.shape
    /\ Size(loss_call.gaes.shape) = Size(loss_call.log_probs.shape)
    /\ loss_call.result = ShapeError

\* C9: when log_probs equals log_probs_old elementwise, loss_policy equals
\* -mean(gaes) exactly, for every advantage array and every clip radius.
C9_RatioOne ==
    (IsPolicyLoss /\ loss_call.result.status = "ok"
        /\ loss_call.log_probs.data = loss_call.log_probs_old.data) =>
        RatEq(loss_call.result.infos.loss_policy, neg(mean(loss_call.gaes.data, 1)))

C9_Witness ==
    /\ IsPolicyLoss /\ loss_call.result.status = "ok"
    /\ loss_call.log_probs.data = loss_call.log_probs_old.data
    /\ Len(loss_call.gaes.data) >= 2
    /\ loss_call.gaes.data[1] < 0 /\ loss_call.gaes.data[2] > 0
    /\ loss_call.clip_eps > 0
    /\ loss_call.result.infos.loss_policy.num = 0

====
